---- MODULE Spec2Model ----
(***************************************************************************)
(* A model of basecrm.http_client.HttpClient: the gateway that builds one  *)
(* HTTP request per call, wraps the outbound body in the {"data": ...}     *)
(* envelope, maps non-2xx status codes to errors and unwraps the envelope  *)
(* of a JSON response.                                                     *)
(*                                                                         *)
(* Python values are modelled as tagged records [t, v]:                    *)
(*   None/null, int, str, list (a sequence), dict (a function on its keys) *)
(* and Bunch (the dict subclass bunchify builds).  Text (a response body,  *)
(* a serialised request body, a URL) is a TLA+ string.  A header value is  *)
(* a sequence of lexical pieces, so that `'json' in value` is a test on    *)
(* the pieces.                                                             *)
(***************************************************************************)
EXTENDS Integers, Sequences, FiniteSets, TLC

VARIABLES
    config,      \* self.config, the Configuration the gateway was built with
    debuglevel,  \* http_client.HTTPConnection.debuglevel (set by enable_logging)
    pc,          \* per caller: "idle", "sent", "returned", "raised"
    op,          \* per caller: the entry point invoked (get/post/put/delete/request)
    call,        \* per caller: the arguments request() was entered with
    net,         \* per caller: the HTTP calls issued during the current invocation
    resp,        \* per caller: the response requests.request() produced
    result,      \* per caller: what the invocation returned or raised
    uw_in,       \* argument of a direct unwrap_envelope call
    uw_out       \* its outcome

vars == <<config, debuglevel, pc, op, call, net, resp, result, uw_in, uw_out>>

----------------------------------------------------------------------------
(* Bounds of the model *)

MaxItems == 2      \* longest `items` array of a response
NumCallers == 2    \* callers sharing one gateway in SpecConc

----------------------------------------------------------------------------
(* Python / JSON values *)

PyNone == [t |-> "null", v |-> 0]
JNum(n) == [t |-> "num", v |-> n]
JStr(s) == [t |-> "str", v |-> s]
JList(s) == [t |-> "list", v |-> s]
JDict(f) == [t |-> "dict", v |-> f]
Bunch(f) == [t |-> "bunch", v |-> f]
EmptyMap == [k \in {} |-> PyNone]

\* Outcomes of an evaluation: a value returned or an exception raised.
Return(x) == [kind |-> "return", value |-> x]
Raise(type, args) == [kind |-> "raise", type |-> type, args |-> args]
NoResult == [kind |-> "none"]

\* Keys in the order the serialiser emits them (dict order is abstracted
\* to this fixed order).
KeyOrder == <<"data", "items", "errors", "id", "name", "page">>

RECURSIVE json_dumps(_)
RECURSIVE DumpList(_, _)
RECURSIVE DumpDict(_, _, _)

\* ", ".join(dumps(x) for x in s[i..])
DumpList(s, i) ==
    IF i > Len(s) THEN ""
    ELSE json_dumps(s[i]) \o (IF i < Len(s) THEN ", " ELSE "") \o DumpList(s, i + 1)

\* the members of dict f for the keys KeyOrder[i..]; first = no member emitted yet
DumpDict(f, i, first) ==
    IF i > Len(KeyOrder) THEN ""
    ELSE IF KeyOrder[i] \in DOMAIN f
         THEN (IF first THEN "" ELSE ", ")
              \o "\"" \o KeyOrder[i] \o "\": " \o json_dumps(f[KeyOrder[i]])
              \o DumpDict(f, i + 1, FALSE)
         ELSE DumpDict(f, i + 1, first)

\* json.dumps(v) with the default separators
json_dumps(v) ==
    CASE v.t = "null" -> "null"
      [] v.t = "num"  -> ToString(v.v)
      [] v.t = "str"  -> "\"" \o v.v \o "\""
      [] v.t = "list" -> "[" \o DumpList(v.v, 1) \o "]"
      [] v.t \in {"dict", "bunch"} -> "{" \o DumpDict(v.v, 1, TRUE) \o "}"

----------------------------------------------------------------------------
(* The values a response body can decode to *)

\* values of a `data` field
DataValues == { JNum(1), JDict("id" :> JNum(7)) }

\* elements of an `items` array: resources with `data`, an object without
\* `data`, and an element that is no object
ItemValues ==
    { JDict("data" :> d) : d \in DataValues }
      \cup { JDict("id" :> JNum(7)), JStr("x") }

ItemLists == UNION { [1..n -> ItemValues] : n \in 0..MaxItems }

\* values of the `items` key: arrays, and values that are no array
ItemsValues == { JList(s) : s \in ItemLists } \cup { PyNone, JDict(EmptyMap) }

\* decoded JSON objects
JsonObjects ==
    { JDict(EmptyMap) }
      \cup { JDict("data" :> d) : d \in DataValues }
      \cup { JDict("items" :> i) : i \in ItemsValues }
      \cup { JDict(("items" :> i) @@ ("data" :> d)) : i \in ItemsValues, d \in DataValues }
      \cup { JDict("errors" :> JList(<<JStr("x")>>)) }

\* decoded JSON documents: objects and documents that are no object
JsonValues ==
    JsonObjects \cup { PyNone, JNum(1), JStr("items"), JList(<<>>), JList(<<JStr("items")>>) }

\* response texts: every JSON document serialised, an empty body and a page
\* that is no JSON
GarbageTexts == { "", "<html>Bad Gateway</html>" }
Texts == { json_dumps(v) : v \in JsonValues } \cup GarbageTexts

\* json.loads: the document whose serialisation is the text, or a failure
json_table ==
    [ txt \in Texts |->
        IF \E v \in JsonValues : json_dumps(v) = txt
        THEN Return(CHOOSE v \in JsonValues : json_dumps(v) = txt)
        ELSE Raise("ValueError", <<"No JSON object could be decoded">>) ]

json_loads(txt) == json_table[txt]

----------------------------------------------------------------------------
(* Envelope *)

\* wrap_envelope(body)
wrap_envelope(body) == JDict("data" :> body)

\* bunchify(x): dicts become Bunch objects, recursively through lists
RECURSIVE bunchify(_)
bunchify(x) ==
    CASE x.t = "dict" -> Bunch([k \in DOMAIN x.v |-> bunchify(x.v[k])])
      [] x.t = "list" -> JList([i \in DOMAIN x.v |-> bunchify(x.v[i])])
      [] OTHER -> x

\* `key in body`: key membership for a dict, element membership for a list,
\* substring test for a str (no str of the model properly contains a key, so
\* the test is equality); every other operand raises TypeError
Contains(body, key) ==
    CASE body.t \in {"dict", "bunch"} -> Return(key \in DOMAIN body.v)
      [] body.t = "list" -> Return(\E i \in DOMAIN body.v : body.v[i] = JStr(key))
      [] body.t = "str"  -> Return(body.v = key)
      [] OTHER -> Raise("TypeError", <<"argument is not iterable">>)

\* body[key]
GetItem(body, key) ==
    IF body.t \in {"dict", "bunch"}
    THEN IF key \in DOMAIN body.v THEN Return(body.v[key])
         ELSE Raise("KeyError", <<key>>)
    ELSE Raise("TypeError", <<"indices must be integers">>)

\* the keys of dict f, in KeyOrder
KeysOf(f) ==
    LET ks == SelectSeq(KeyOrder, LAMBDA k : k \in DOMAIN f)
    IN [i \in DOMAIN ks |-> JStr(ks[i])]

\* iter(x): the elements a for loop visits: the elements of a list, the keys
\* of a dict, the characters of a str (one str per character; which
\* character is abstracted)
Iterate(x) ==
    CASE x.t = "list" -> Return(x.v)
      [] x.t \in {"dict", "bunch"} -> Return(KeysOf(x.v))
      [] x.t = "str" -> Return([i \in 1..Len(x.v) |-> JStr("c")])
      [] OTHER -> Raise("TypeError", <<"object is not iterable">>)

\* unwrap_envelope reading the top-level `data` before looking for `items`
unwrap_envelope_data_first(body) ==
    IF body.t = "dict" /\ "data" \in DOMAIN body.v
    THEN Return(bunchify(body.v["data"]))
    ELSE LET items == GetItem(body, "items") IN
         IF items.kind = "raise" THEN items
         ELSE LET it == Iterate(items.value) IN
              IF it.kind = "raise" THEN it
              ELSE LET s == it.value
                       got == [i \in DOMAIN s |-> GetItem(s[i], "data")]
                       bad == { i \in DOMAIN s : got[i].kind = "raise" }
                   IN IF bad # {}
                      THEN got[CHOOSE i \in bad : \A j \in bad : i <= j]
                      ELSE Return(JList([i \in DOMAIN s |-> bunchify(got[i].value)]))

\* unwrap_envelope reading fields with dict.get: a missing field is None
unwrap_envelope_lenient(body) ==
    IF body.t # "dict" THEN Raise("TypeError", <<"indices must be integers">>)
    ELSE IF "items" \in DOMAIN body.v
    THEN LET it == Iterate(body.v["items"]) IN
         IF it.kind = "raise" THEN it
         ELSE LET s == it.value
                  got == [i \in DOMAIN s |->
                            IF s[i].t = "dict" /\ "data" \in DOMAIN s[i].v
                            THEN s[i].v["data"] ELSE PyNone]
              IN Return(JList([i \in DOMAIN s |-> bunchify(got[i])]))
    ELSE Return(bunchify(IF "data" \in DOMAIN body.v THEN body.v["data"] ELSE PyNone))

\* unwrap_envelope(body)
unwrap_envelope(body) ==
    LET has == Contains(body, "items") IN
    IF has.kind = "raise" THEN has
    ELSE IF has.value
    THEN LET items == GetItem(body, "items") IN
         IF items.kind = "raise" THEN items
         ELSE LET it == Iterate(items.value) IN
              IF it.kind = "raise" THEN it
              ELSE LET s == it.value
                       got == [i \in DOMAIN s |-> GetItem(s[i], "data")]
                       bad == { i \in DOMAIN s : got[i].kind = "raise" }
                   IN IF bad # {}
                      THEN got[CHOOSE i \in bad : \A j \in bad : i <= j]
                      ELSE Return(JList([i \in DOMAIN s |-> bunchify(got[i].value)]))
    ELSE LET data == GetItem(body, "data") IN
         IF data.kind = "raise" THEN data
         ELSE Return(bunchify(data.value))

----------------------------------------------------------------------------
(* Configuration, responses and arguments *)

Callers == 1..NumCallers
Main == CHOOSE t \in Callers : \A u \in Callers : t <= u

\* API_VERSION
API_VERSION == "/v2"

\* basecrm.Configuration values a gateway is built with
Configs ==
    { [ base_url |-> "https://api.getbase.com", access_token |-> "tok-a",
        user_agent |-> "BaseCRM/V2 Python/1.0", timeout |-> 30,
        verify_ssl |-> TRUE, verbose |-> FALSE ],
      [ base_url |-> "https://sandbox.local", access_token |-> "tok-b",
        user_agent |-> "custom-agent", timeout |-> 5,
        verify_ssl |-> FALSE, verbose |-> TRUE ] }

\* float(x)
Float(x) == [t |-> "float", v |-> x]

\* the bytes of a body
Bytes(txt) == [t |-> "bytes", v |-> txt]

\* sub in value, for a header value given as its pieces
StrContains(value, sub) == \E i \in DOMAIN value : value[i] = sub

ContentTypes ==
    { <<"application/", "json">>,
      <<"application/", "json", "; charset=utf-8">>,
      <<"text/html">> }

RespHeaders == { EmptyMap } \cup { "Content-Type" :> ct : ct \in ContentTypes }

SuccessCodes == { 200, 201, 204, 299 }
ErrorCodes ==
    { 100, 199, 300, 304, 399, 400, 401, 404, 421, 422, 423, 428, 429, 430, 499,
      500, 503, 599, 600, 999 }

ErrorsDoc == JDict("errors" :> JList(<<JStr("x")>>))

\* bodies of error responses: unparseable, an errors document, and two
\* well-formed envelopes
ErrorTexts ==
    GarbageTexts
      \cup { json_dumps(ErrorsDoc), json_dumps(JDict("data" :> JNum(1))),
             json_dumps(JDict("items" :> JList(<<>>))) }

Response(c, h, txt) == [status_code |-> c, headers |-> h, content |-> Bytes(txt)]

\* bodies read only as raw content
PlainTexts == GarbageTexts \cup { "{}", json_dumps(JDict("data" :> JNum(1))) }

JsonType == "Content-Type" :> <<"application/", "json">>

\* the responses of the model: every text under a 200 with a JSON content
\* type, every success code and header with the plain texts, every error
\* code with the error texts
Responses ==
    { Response(200, JsonType, txt) : txt \in Texts }
      \cup { Response(c, h, txt) : c \in SuccessCodes, h \in RespHeaders, txt \in PlainTexts }
      \cup { Response(c, h, txt) : c \in ErrorCodes, h \in { EmptyMap, JsonType }, txt \in ErrorTexts }

NoResp == [status_code |-> 0]
NoCall == [method |-> "none"]

Paths == { "/contacts", "/deals/1" }
Params == { PyNone, JDict("page" :> JNum(2)) }
Bodies == { PyNone, JDict(EmptyMap), JDict("name" :> JStr("x")) }

\* arguments <<url, params, kwargs>> of get and delete; a `body` keyword
\* reaches request's body parameter
ReadCalls ==
    { <<url, params, EmptyMap>> : url \in Paths, params \in Params }
      \cup { <<"/contacts", PyNone, "body" :> JDict("name" :> JStr("x"))>>,
             <<"/contacts", PyNone, "stream" :> JNum(1)>> }

\* arguments <<url, body, kwargs>> of post and put
WriteCalls ==
    { <<url, body, EmptyMap>> : url \in Paths, body \in Bodies }
      \cup { <<"/contacts", PyNone, "params" :> JDict("page" :> JNum(2))>> }

\* arguments <<method, url, params, body, kwargs>> of request
DirectCalls ==
    { <<"patch", "/deals/1", params, body, EmptyMap>> : params \in Params, body \in Bodies }
      \cup { <<"get", "/contacts", PyNone, PyNone, "stream" :> JNum(1)>> }

\* the keyword `name` of kwargs, or the parameter's default None
KwArg(kwargs, name) == IF name \in DOMAIN kwargs THEN kwargs[name] ELSE PyNone

\* kwargs without the keywords bound to named parameters
KwRest(kwargs, names) == [k \in DOMAIN kwargs \ names |-> kwargs[k]]

\* resp.text and resp.json()
ResponseText(r) == r.content.v
ResponseJson(r) == json_loads(r.content.v)

----------------------------------------------------------------------------
(* request: building and issuing the HTTP call *)

\* build_request testing `if body:` (an empty dict counts as no body)
build_request_truthy(cfg, method, url, params, body) ==
    LET full == cfg.base_url \o API_VERSION \o url
        base == ("Accept" :> "application/json")
                  @@ ("Authorization" :> ("Bearer " \o cfg.access_token))
                  @@ ("User-Agent" :> cfg.user_agent)
        given == body # PyNone /\ body # JDict(EmptyMap)
        headers == IF given
                   THEN base @@ ("Content-Type" :> "application/json")
                   ELSE base
        data == IF given
                THEN JStr(json_dumps(wrap_envelope(body)))
                ELSE PyNone
    IN [ method |-> method, url |-> full, params |-> params, data |-> data,
         headers |-> headers, timeout |-> Float(cfg.timeout),
         verify |-> cfg.verify_ssl ]

\* the arguments of requests.request(...) that request() builds
build_request(cfg, method, url, params, body) ==
    LET full == cfg.base_url \o API_VERSION \o url
        base == ("Accept" :> "application/json")
                  @@ ("Authorization" :> ("Bearer " \o cfg.access_token))
                  @@ ("User-Agent" :> cfg.user_agent)
        headers == IF body # PyNone
                   THEN base @@ ("Content-Type" :> "application/json")
                   ELSE base
        data == IF body # PyNone
                THEN JStr(json_dumps(wrap_envelope(body)))
                ELSE PyNone
    IN [ method |-> method, url |-> full, params |-> params, data |-> data,
         headers |-> headers, timeout |-> Float(cfg.timeout),
         verify |-> cfg.verify_ssl ]

\* request() up to the point where requests.request() blocks: one HTTP call
\* is issued.  **kwargs is accepted and not passed on.
issue(t, method, url, params, body, kwargs) ==
    /\ pc[t] # "sent"
    /\ pc' = [pc EXCEPT ![t] = "sent"]
    /\ call' = [call EXCEPT ![t] = [ method |-> method, url |-> url, params |-> params,
                                     body |-> body, kwargs |-> kwargs ]]
    /\ net' = [net EXCEPT ![t] = << build_request(config, method, url, params, body) >>]
    /\ resp' = [resp EXCEPT ![t] = NoResp]
    /\ result' = [result EXCEPT ![t] = NoResult]

\* request keeping the URL it built on the configuration
request_stores_url(t, method, url, params, body, kwargs) ==
    /\ issue(t, method, url, params, body, kwargs)
    /\ config' = [config EXCEPT !.base_url = config.base_url \o API_VERSION \o url]
    /\ UNCHANGED <<debuglevel, uw_in, uw_out>>

\* request(method, url, params, body, **kwargs), lines 104-122
request(t, method, url, params, body, kwargs) ==
    /\ issue(t, method, url, params, body, kwargs)
    /\ UNCHANGED <<config, debuglevel, uw_in, uw_out>>

get(t, url, params, kwargs) ==
    /\ op' = [op EXCEPT ![t] = "get"]
    /\ request(t, "get", url, params, KwArg(kwargs, "body"), KwRest(kwargs, {"body"}))

post(t, url, body, kwargs) ==
    /\ op' = [op EXCEPT ![t] = "post"]
    /\ request(t, "post", url, KwArg(kwargs, "params"), body, KwRest(kwargs, {"params"}))

put(t, url, body, kwargs) ==
    /\ op' = [op EXCEPT ![t] = "put"]
    /\ request(t, "put", url, KwArg(kwargs, "params"), body, KwRest(kwargs, {"params"}))

delete(t, url, params, kwargs) ==
    /\ op' = [op EXCEPT ![t] = "delete"]
    /\ request(t, "delete", url, params, KwArg(kwargs, "body"), KwRest(kwargs, {"body"}))

\* request() called directly
request_direct(t, method, url, params, body, kwargs) ==
    /\ op' = [op EXCEPT ![t] = "request"]
    /\ request(t, method, url, params, body, kwargs)

----------------------------------------------------------------------------
(* request: handling the response *)

\* handle_error_response returning normally for a code outside 400-599
handle_error_response_passes(r) ==
    LET errors == ResponseJson(r)
        resp_code == r.status_code
    IN IF errors.kind = "raise"
       THEN Raise("Exception",
                  << "Unknown HTTP error response. Json expected. "
                     \o "HTTP response code=" \o ToString(r.status_code) \o ". "
                     \o "HTTP response body=" \o ResponseText(r) >>)
       ELSE IF resp_code = 422 THEN Raise("ResourceError", <<resp_code, errors.value>>)
       ELSE IF resp_code = 429 THEN Raise("RateLimitError", <<>>)
       ELSE IF 400 <= resp_code /\ resp_code < 500
            THEN Raise("RequestError", <<resp_code, errors.value>>)
       ELSE IF 500 <= resp_code /\ resp_code < 600
            THEN Raise("ServerError", <<resp_code, errors.value>>)
       ELSE NoResult

\* handle_error_response testing the 400-499 range before 422 and 429
handle_error_response_range_first(r) ==
    LET errors == ResponseJson(r)
        resp_code == r.status_code
    IN IF errors.kind = "raise"
       THEN Raise("Exception",
                  << "Unknown HTTP error response. Json expected. "
                     \o "HTTP response code=" \o ToString(r.status_code) \o ". "
                     \o "HTTP response body=" \o ResponseText(r) >>)
       ELSE IF 400 <= resp_code /\ resp_code < 500
            THEN Raise("RequestError", <<resp_code, errors.value>>)
       ELSE IF resp_code = 422 THEN Raise("ResourceError", <<resp_code, errors.value>>)
       ELSE IF resp_code = 429 THEN Raise("RateLimitError", <<>>)
       ELSE IF 500 <= resp_code /\ resp_code < 600
            THEN Raise("ServerError", <<resp_code, errors.value>>)
       ELSE Raise("Exception", <<"Unknown HTTP error response">>)

\* handle_error_response classifying by status code before parsing the body
handle_error_response_code_first(r) ==
    LET errors == ResponseJson(r)
        payload == IF errors.kind = "raise" THEN PyNone ELSE errors.value
        resp_code == r.status_code
    IN IF resp_code = 422 THEN Raise("ResourceError", <<resp_code, payload>>)
       ELSE IF resp_code = 429 THEN Raise("RateLimitError", <<>>)
       ELSE IF 400 <= resp_code /\ resp_code < 500
            THEN Raise("RequestError", <<resp_code, payload>>)
       ELSE IF 500 <= resp_code /\ resp_code < 600
            THEN Raise("ServerError", <<resp_code, payload>>)
       ELSE IF errors.kind = "raise"
       THEN Raise("Exception",
                  << "Unknown HTTP error response. Json expected. "
                     \o "HTTP response code=" \o ToString(r.status_code) \o ". "
                     \o "HTTP response body=" \o ResponseText(r) >>)
       ELSE Raise("Exception", <<"Unknown HTTP error response">>)

\* handle_error_response(resp): the exception raised (NoResult would be a
\* normal return)
handle_error_response(r) ==
    LET errors == ResponseJson(r)
        resp_code == r.status_code
    IN IF errors.kind = "raise"
       THEN Raise("Exception",
                  << "Unknown HTTP error response. Json expected. "
                     \o "HTTP response code=" \o ToString(r.status_code) \o ". "
                     \o "HTTP response body=" \o ResponseText(r) >>)
       ELSE IF resp_code = 422 THEN Raise("ResourceError", <<resp_code, errors.value>>)
       ELSE IF resp_code = 429 THEN Raise("RateLimitError", <<>>)
       ELSE IF 400 <= resp_code /\ resp_code < 500
            THEN Raise("RequestError", <<resp_code, errors.value>>)
       ELSE IF 500 <= resp_code /\ resp_code < 600
            THEN Raise("ServerError", <<resp_code, errors.value>>)
       ELSE Raise("Exception", <<"Unknown HTTP error response">>)

\* the decoding of the response body and the tuple returned
decode_response(r) ==
    IF "Content-Type" \in DOMAIN r.headers /\ StrContains(r.headers["Content-Type"], "json")
    THEN LET j == ResponseJson(r) IN
         IF j.kind = "raise" THEN j
         ELSE LET resp_body == unwrap_envelope(j.value) IN
              IF resp_body.kind = "raise" THEN resp_body
              ELSE Return(<<r.status_code, r.headers, resp_body.value>>)
    ELSE Return(<<r.status_code, r.headers, r.content>>)

\* request() from the status check to its end
request_outcome(r) ==
    LET err == IF ~(200 <= r.status_code /\ r.status_code < 300)
               THEN handle_error_response(r)
               ELSE NoResult
    IN IF err.kind = "raise" THEN err ELSE decode_response(r)

\* request issuing the call again when the response is an error
request_response_retry(t, r) ==
    /\ pc[t] = "sent"
    /\ IF ~(200 <= r.status_code /\ r.status_code < 300) /\ Len(net[t]) < 2
       THEN /\ net' = [net EXCEPT ![t] = Append(@, @[1])]
            /\ UNCHANGED <<pc, resp, result>>
       ELSE /\ resp' = [resp EXCEPT ![t] = r]
            /\ result' = [result EXCEPT ![t] = request_outcome(r)]
            /\ pc' = [pc EXCEPT ![t] = IF request_outcome(r).kind = "raise"
                                       THEN "raised" ELSE "returned"]
            /\ UNCHANGED net
    /\ UNCHANGED <<config, debuglevel, op, call, uw_in, uw_out>>

\* requests.request() returns response r and request() runs to its end
request_response(t, r) ==
    /\ pc[t] = "sent"
    /\ resp' = [resp EXCEPT ![t] = r]
    /\ result' = [result EXCEPT ![t] = request_outcome(r)]
    /\ pc' = [pc EXCEPT ![t] = IF request_outcome(r).kind = "raise" THEN "raised" ELSE "returned"]
    /\ UNCHANGED <<config, debuglevel, op, call, net, uw_in, uw_out>>

\* requests.request() raises (timeout, connection failure): the exception
\* leaves request()
TransportErrors == { "Timeout", "ConnectionError" }

transport_error(t, e) ==
    /\ pc[t] = "sent"
    /\ result' = [result EXCEPT ![t] = Raise(e, <<>>)]
    /\ pc' = [pc EXCEPT ![t] = "raised"]
    /\ UNCHANGED <<config, debuglevel, op, call, net, resp, uw_in, uw_out>>

\* unwrap_envelope called on its own
unwrap_call ==
    /\ uw_out = NoResult
    /\ uw_out' = unwrap_envelope(uw_in)
    /\ UNCHANGED <<config, debuglevel, pc, op, call, net, resp, result, uw_in>>

----------------------------------------------------------------------------
(* Specifications *)

\* HttpClient.__init__: the configuration is stored; verbose enables logging
InitGateway ==
    /\ config \in Configs
    /\ debuglevel = IF config.verbose THEN 1 ELSE 0
    /\ pc = [t \in Callers |-> "idle"]
    /\ op = [t \in Callers |-> "none"]
    /\ call = [t \in Callers |-> NoCall]
    /\ net = [t \in Callers |-> <<>>]
    /\ resp = [t \in Callers |-> NoResp]
    /\ result = [t \in Callers |-> NoResult]

Init ==
    /\ InitGateway
    /\ uw_in = PyNone
    /\ uw_out = NoResult

\* one caller, calls one after the other
Next ==
    \/ \E c \in ReadCalls : get(Main, c[1], c[2], c[3])
    \/ \E c \in WriteCalls : post(Main, c[1], c[2], c[3])
    \/ \E c \in WriteCalls : put(Main, c[1], c[2], c[3])
    \/ \E c \in ReadCalls : delete(Main, c[1], c[2], c[3])
    \/ \E c \in DirectCalls : request_direct(Main, c[1], c[2], c[3], c[4], c[5])
    \/ \E r \in Responses : request_response(Main, r)
    \/ \E e \in TransportErrors : transport_error(Main, e)

Spec == Init /\ [][Next]_vars

\* several callers share the gateway; their calls interleave
ConcResponses ==
    { Response(200, JsonType, json_dumps(JDict("data" :> JNum(1)))),
      Response(200, JsonType, "{}"),
      Response(429, EmptyMap, json_dumps(ErrorsDoc)),
      Response(500, EmptyMap, "") }

ConcPath == "/contacts"
ConcBody == JDict("name" :> JStr("x"))

NextConc ==
    \E t \in Callers :
        \/ get(t, ConcPath, PyNone, EmptyMap)
        \/ post(t, ConcPath, ConcBody, EmptyMap)
        \/ put(t, ConcPath, ConcBody, EmptyMap)
        \/ delete(t, ConcPath, PyNone, EmptyMap)
        \/ request_direct(t, "get", ConcPath, PyNone, PyNone, EmptyMap)
        \/ \E r \in ConcResponses : request_response(t, r)
        \/ transport_error(t, "Timeout")

SpecConc == Init /\ [][NextConc]_vars

\* unwrap_envelope applied to every decoded document
InitUnwrap ==
    /\ InitGateway
    /\ uw_in \in JsonValues
    /\ uw_out = NoResult

NextUnwrap == unwrap_call

SpecUnwrap == InitUnwrap /\ [][NextUnwrap]_vars

----------------------------------------------------------------------------
(* Properties *)

IsSuccess(c) == 200 <= c /\ c < 300

\* caller t's invocation has ended after a response arrived
Answered(t) == pc[t] \in {"returned", "raised"} /\ resp[t].status_code # 0

IsJsonType(r) ==
    "Content-Type" \in DOMAIN r.headers /\ StrContains(r.headers["Content-Type"], "json")

\* a Bunch compares equal to the dict with the same fields
RECURSIVE Unbunch(_)
Unbunch(x) ==
    CASE x.t = "bunch" -> JDict([k \in DOMAIN x.v |-> Unbunch(x.v[k])])
      [] x.t = "list"  -> JList([i \in DOMAIN x.v |-> Unbunch(x.v[i])])
      [] OTHER -> x

\* C1: a call whose response status code is outside [200, 300) raises and
\* returns no tuple, whatever the code and whether or not the body parses.
C1_ErrorStatusNeverReturns ==
    \A t \in Callers :
        (Answered(t) /\ ~IsSuccess(resp[t].status_code))
            => (pc[t] = "raised" /\ result[t].kind = "raise")

\* a 3xx response with a JSON content type and a well-formed envelope raised
C1_Witness ==
    \E t \in Callers :
        /\ Answered(t) /\ resp[t].status_code = 304
        /\ IsJsonType(resp[t])
        /\ resp[t].content.v = json_dumps(JDict("data" :> JNum(1)))
        /\ pc[t] = "raised"

\* the error the table gives for status code c and parsed body errors
C2_Table(c, errors) ==
    IF c = 422 THEN Raise("ResourceError", <<c, errors>>)
    ELSE IF c = 429 THEN Raise("RateLimitError", <<>>)
    ELSE IF c \in 400..499 THEN Raise("RequestError", <<c, errors>>)
    ELSE IF c \in 500..599 THEN Raise("ServerError", <<c, errors>>)
    ELSE Raise("Exception", <<"Unknown HTTP error response">>)

\* C2: for a non-2xx status code whose body parses as JSON the error raised
\* is the one of the table: 422 Resource error (code, errors), 429 Rate limit
\* error (no payload), other 4xx Request error (code, errors), 5xx Server
\* error (code, errors), any other code the Unknown error (no payload).
C2_StatusTable ==
    \A t \in Callers :
        (Answered(t) /\ ~IsSuccess(resp[t].status_code)
           /\ ResponseJson(resp[t]).kind = "return")
            => LET want == C2_Table(resp[t].status_code, ResponseJson(resp[t]).value)
               IN /\ result[t].kind = "raise"
                  /\ result[t].type = want.type
                  /\ result[t].args = want.args

\* a 422 with a parsed body raised the Resource error
C2_Witness ==
    \E t \in Callers :
        /\ Answered(t) /\ resp[t].status_code = 422
        /\ ResponseJson(resp[t]).kind = "return"
        /\ result[t].kind = "raise" /\ result[t].type = "ResourceError"

\* C3: a response with status 429 raises the Rate limit error whatever its
\* body is (valid JSON, invalid JSON or empty).
C3_RateLimitWhateverBody ==
    \A t \in Callers :
        (Answered(t) /\ resp[t].status_code = 429)
            => (result[t].kind = "raise" /\ result[t].type = "RateLimitError")

C5_ItemsWithData(b) ==
    /\ "items" \in DOMAIN b.v
    /\ b.v["items"].t = "list"
    /\ \A i \in DOMAIN b.v["items"].v :
          b.v["items"].v[i].t = "dict" /\ "data" \in DOMAIN b.v["items"].v[i].v

\* C5: unwrap_envelope of an object with `items` is the sequence of the
\* elements' `data`, same length and order, also with a top-level `data`
\* beside it; of an object without `items` it is the top-level `data`.
C5_UnwrapEnvelope ==
    (uw_out.kind # "none" /\ uw_in.t = "dict")
        => /\ C5_ItemsWithData(uw_in)
                => /\ uw_out.kind = "return"
                   /\ uw_out.value.t = "list"
                   /\ Len(uw_out.value.v) = Len(uw_in.v["items"].v)
                   /\ \A i \in DOMAIN uw_in.v["items"].v :
                         Unbunch(uw_out.value.v[i]) = uw_in.v["items"].v[i].v["data"]
           /\ ("items" \notin DOMAIN uw_in.v /\ "data" \in DOMAIN uw_in.v)
                => /\ uw_out.kind = "return"
                   /\ Unbunch(uw_out.value) = uw_in.v["data"]

\* two different items beside a top-level `data` were unwrapped
C5_Witness ==
    /\ uw_out.kind = "return"
    /\ uw_in = JDict(("items" :> JList(<< JDict("data" :> JDict("id" :> JNum(7))),
                                          JDict("data" :> JNum(1)) >>))
                       @@ ("data" :> JNum(1)))

\* C6: every response with a status code in [200, 300) makes request return
\* (status code, headers, decoded body): the unwrapped envelope when the
\* Content-Type contains `json`, the raw body otherwise.
C6_SuccessReturnsTuple ==
    \A t \in Callers :
        (Answered(t) /\ IsSuccess(resp[t].status_code))
            => /\ pc[t] = "returned"
               /\ result[t].kind = "return"
               /\ result[t].value[1] = resp[t].status_code
               /\ result[t].value[2] = resp[t].headers
               /\ IF IsJsonType(resp[t])
                  THEN Return(result[t].value[3]) = unwrap_envelope(ResponseJson(resp[t]).value)
                  ELSE result[t].value[3] = resp[t].content

\* C7: a body other than None (an empty dict included) is sent as the JSON
\* text of {"data": body} with Content-Type: application/json; without a body
\* no payload and no Content-Type are sent; Accept, Authorization and
\* User-Agent are always sent.
C7_OutboundEnvelope ==
    \A t \in Callers :
        pc[t] # "idle"
            => /\ Len(net[t]) >= 1
               /\ LET q == net[t][1]
                      b == call[t].body
                  IN /\ q.headers["Accept"] = "application/json"
                     /\ q.headers["Authorization"] = "Bearer " \o config.access_token
                     /\ q.headers["User-Agent"] = config.user_agent
                     /\ IF b.t # "null"
                        THEN /\ q.data.t = "str"
                             /\ q.data.v = "{\"data\": " \o json_dumps(b) \o "}"
                             /\ DOMAIN q.headers =
                                  {"Accept", "Authorization", "User-Agent", "Content-Type"}
                             /\ q.headers["Content-Type"] = "application/json"
                        ELSE /\ q.data.t = "null"
                             /\ DOMAIN q.headers = {"Accept", "Authorization", "User-Agent"}

\* an empty dict was sent as {"data": {}}
C7_Witness ==
    \E t \in Callers :
        /\ pc[t] = "sent"
        /\ call[t].body = JDict(EmptyMap)
        /\ net[t][1].data.t = "str"
        /\ net[t][1].data.v = "{\"data\": {}}"

C9_SameCall(t, u) == pc[t] # "idle" /\ pc[u] # "idle" /\ call[t] = call[u]
C9_SameAnswer(t, u) ==
    /\ Answered(t) /\ Answered(u)
    /\ resp[t].status_code = resp[u].status_code
    /\ resp[t] = resp[u]

\* C9: no call changes the Configuration or the logging state the
\* constructor set, and a call's HTTP request and outcome depend on its own
\* arguments, the Configuration and its own response only: two calls with the
\* same arguments issue the same request, and with the same response they
\* end the same way, whatever ran before or beside them.
C9_CallsAreIndependent ==
    /\ [][config' = config /\ debuglevel' = debuglevel]_vars
    /\ [](\A t, u \in Callers :
            /\ C9_SameCall(t, u) => net[t] = net[u]
            /\ C9_SameAnswer(t, u) => (pc[t] = pc[u] /\ result[t] = result[u]))

\* two callers, after earlier calls of their own, ended the same call with
\* the same response
C9_Witness ==
    \E t, u \in Callers :
        /\ t # u
        /\ C9_SameCall(t, u) /\ C9_SameAnswer(t, u)
        /\ op[t] # op[u]
        /\ pc[t] = "returned"

\* the elements of x are objects with a `data` field
C10_ElementsHaveData(x) ==
    CASE x.t = "list" ->
            \A i \in DOMAIN x.v : x.v[i].t = "dict" /\ "data" \in DOMAIN x.v[i].v
      [] x.t = "dict" -> DOMAIN x.v = {}
      [] x.t = "str"  -> x.v = ""
      [] OTHER -> FALSE

\* the body is a JSON object with `items` whose elements all have `data`,
\* or without `items` and with a top-level `data`
C10_EnvelopeOk(r) ==
    /\ ResponseJson(r).kind = "return"
    /\ ResponseJson(r).value.t = "dict"
    /\ LET f == ResponseJson(r).value.v
       IN IF "items" \in DOMAIN f THEN C10_ElementsHaveData(f["items"])
          ELSE "data" \in DOMAIN f

====
